---- MODULE Spec2Model ----
(***************************************************************************)
(* Model of random_api.py: the seed endpoint (get_random_seed), the        *)
(* hashing and randomised-arithmetic helpers, the mixing pipeline and the  *)
(* command line driver (main, get_seed_from_api).                          *)
(*                                                                         *)
(* Python integers are unbounded; the model keeps every value below 2^31   *)
(* by bounding the seeds, the random draws and the digest lengths.  The    *)
(* SHAKE primitives of hashlib are library code: they are represented by a *)
(* deterministic extendable-output stand-in (Absorb / SqueezeByte).        *)
(***************************************************************************)
EXTENDS Integers, Sequences, FiniteSets, TLC

\* ------------------------------------------------------------------ bounds
MaxSeed == 2
MaxDraw == 1
MaxLoops == 2
MaxMulTimes == 1
MaxAddTimes == 1
MaxHash1Len == 4
MaxHash1Loops == 1
MaxHash2Len == 3
MaxRemove == 2
MaxHash4Len == 3
MaxDiv == 2
MaxOther == 1

\* ------------------------------------------------------- program constants
API_KEY == "RANDOM_NUM"
SeedBits == 64
MulBits == 32
AddBits == 32
FinalMulBits == 16
SqrtDivisor == 4
TruncLen == 4096
ByteMod == 256

\* --------------------------------------------------------- generic helpers
Min(a, b) == IF a < b THEN a ELSE b

Max(a, b) == IF a > b THEN a ELSE b

RECURSIVE Pow(_, _)
Pow(b, e) == IF e <= 0 THEN 1 ELSE b * Pow(b, e - 1)

\* s[:n] for n >= 0
Take(s, n) == SubSeq(s, 1, Min(n, Len(s)))

\* s[::-1]
Reverse(s) == [i \in 1..Len(s) |-> s[Len(s) + 1 - i]]

\* list.pop(idx), idx counted from 1
RemoveAt(s, idx) == SubSeq(s, 1, idx - 1) \o SubSeq(s, idx + 1, Len(s))

\* Python's //: the quotient rounded towards minus infinity, d # 0
FloorDiv(a, d) == a \div d

\* int.bit_length() of a non-negative (or the magnitude of a negative) int
RECURSIVE bit_length(_)
bit_length(v) ==
  IF v < 0 THEN bit_length(0 - v)
  ELSE IF v = 0 THEN 0 ELSE 1 + bit_length(v \div 2)

\* a faulty variant: no floor of one byte for the value zero
byte_len_nofloor(v) == (bit_length(v) + 7) \div 8

\* byte_len = max((value.bit_length() + 7) // 8, 1)
byte_len(v) == Max((bit_length(v) + 7) \div 8, 1)

\* int.to_bytes(n, "big") of a non-negative value that fits in n bytes
to_bytes(v, n) == [i \in 1..n |-> (v \div Pow(256, n - i)) % 256]

\* value.to_bytes(byte_len, "big")
EncodeValue(v) == to_bytes(v, byte_len(v))

\* ------------------------------------------------------------- hex strings
HexChars == <<"0", "1", "2", "3", "4", "5", "6", "7",
              "8", "9", "a", "b", "c", "d", "e", "f">>

HexCharSet == {HexChars[i] : i \in 1..16}

HexVal(c) == (CHOOSE i \in 1..16 : HexChars[i] = c) - 1

\* int(s, 16) of a non-empty string of hex digits
RECURSIVE ParseHex(_)
ParseHex(s) ==
  IF Len(s) = 0 THEN 0
  ELSE 16 * ParseHex(SubSeq(s, 1, Len(s) - 1)) + HexVal(s[Len(s)])

\* int(s, 16) raises ValueError on the empty string
ParseFails(s) == Len(s) = 0

\* bytes.hex(): two lowercase hex digits per byte
BytesToHex(bs) ==
  [i \in 1..(2 * Len(bs)) |->
     IF i % 2 = 1 THEN HexChars[(bs[(i + 1) \div 2] \div 16) + 1]
     ELSE HexChars[(bs[i \div 2] % 16) + 1]]

\* bytes.fromhex(s) of an even-length hex string
fromhex(s) ==
  [i \in 1..(Len(s) \div 2) |-> 16 * HexVal(s[2 * i - 1]) + HexVal(s[2 * i])]

\* ------------------------------------------------- extendable-output hash
\* hashlib.shake_128 / shake_256: a deterministic function of the input
\* bytes whose output stream does not depend on the requested length.
Rate(alg) == IF alg = "shake_128" THEN 168 ELSE 136

RECURSIVE Absorb(_, _)
Absorb(alg, data) ==
  IF Len(data) = 0 THEN Rate(alg)
  ELSE (Absorb(alg, SubSeq(data, 1, Len(data) - 1)) * 33
        + data[Len(data)] + 1) % 65521

\* the state of the output stream after k bytes were squeezed
RECURSIVE SqueezeState(_, _)
SqueezeState(st, k) ==
  IF k = 0 THEN st ELSE (SqueezeState(st, k - 1) * 75 + 74) % 65537

SqueezeByte(st, k) == (SqueezeState(st, k) \div 7) % 256

\* hashlib.shake_*(data).hexdigest(out_len_bytes)
hexdigest(alg, data, out_len_bytes) ==
  BytesToHex([k \in 1..out_len_bytes |-> SqueezeByte(Absorb(alg, data), k)])

\* a faulty variant: the requested count is taken as a byte count, not halved
shake_hash_nohalve(data, out_len_chars, alg) ==
  hexdigest(alg, data, out_len_chars)

shake_hash(data, out_len_chars, alg) ==
  hexdigest(alg, data, out_len_chars \div 2)

\* one hash of the running value: encode, hash, record the call
\* (to_bytes raises OverflowError on a negative value)
HashValue(v, n, alg) ==
  IF v < 0
  THEN [out |-> <<>>, err |-> "OverflowError", call |-> <<>>]
  ELSE LET data == EncodeValue(v)
           h == shake_hash(data, n, alg)
       IN [out |-> h, err |-> "none",
           call |-> <<[alg |-> alg, encodes |-> TRUE, value |-> v,
                       data |-> data, n |-> n, out |-> h]>>]

\* ---------------------------------------------------------- random source
\* secrets.randbelow(1 << bits), sampled on 0..MaxDraw
RandBelowBits(bits) == {r \in 0..MaxDraw : bit_length(r) <= bits}

\* secrets.randbits(bits), sampled on 0..MaxDraw
randbits(bits) == {r \in 0..MaxDraw : bit_length(r) <= bits}

\* secrets.randbelow(n) for a small n
randbelow(n) == 0..(n - 1)

DrawBits(bits) == [kind |-> "randbelow_pow2", arg |-> bits]

DrawIndex(n) == [kind |-> "randbelow", arg |-> n]

DrawShuffle(n) == [kind |-> "shuffle", arg |-> n]

Outcome(v, d) == [value |-> v, draws |-> d]

\* runs of a function that draws: each outcome is the result with the draws
\* it made, in order
After(d, outs) == {Outcome(o.value, <<d>> \o o.draws) : o \in outs}

RECURSIVE RemoveLoop(_, _)
RemoveLoop(lst, k) ==
  IF k <= 0 THEN {Outcome(lst, <<>>)}
  ELSE UNION {After(DrawIndex(Len(lst)), RemoveLoop(RemoveAt(lst, idx + 1), k - 1))
                : idx \in randbelow(Len(lst))}

\* a faulty variant: the loop stops one iteration short
remove_random_chars_short(s, n) == RemoveLoop(s, Min(n, Len(s)) - 1)

remove_random_chars(s, n) == RemoveLoop(s, Min(n, Len(s)))

RECURSIVE multiply_by_random(_, _)
multiply_by_random(value, times) ==
  IF times <= 0 THEN {Outcome(value, <<>>)}
  ELSE UNION {After(DrawBits(MulBits), multiply_by_random(value * (r + 1), times - 1))
                : r \in RandBelowBits(MulBits)}

RECURSIVE add_random(_, _)
add_random(value, times) ==
  IF times <= 0 THEN {Outcome(value, <<>>)}
  ELSE UNION {After(DrawBits(AddBits), add_random(value + r, times - 1))
                : r \in RandBelowBits(AddBits)}

RECURSIVE repeated_hashing(_, _, _, _)
repeated_hashing(value, hash_len_chars, loops, alg) ==
  IF loops <= 0 THEN [value |-> value, err |-> "none", calls |-> <<>>]
  ELSE LET hv == HashValue(value, hash_len_chars, alg)
       IN IF hv.err # "none"
          THEN [value |-> value, err |-> hv.err, calls |-> hv.call]
          ELSE IF ParseFails(hv.out)
          THEN [value |-> value, err |-> "ValueError", calls |-> hv.call]
          ELSE LET rest == repeated_hashing(ParseHex(hv.out), hash_len_chars,
                                            loops - 1, alg)
               IN [value |-> rest.value, err |-> rest.err,
                   calls |-> hv.call \o rest.calls]

\* math.isqrt: the largest r with r * r <= n
RECURSIVE isqrt(_)
isqrt(n) ==
  IF n < 2 THEN n
  ELSE LET s == 2 * isqrt(n \div 4)
       IN IF (s + 1) * (s + 1) > n THEN s ELSE s + 1

sqrt_and_divide(value, divisor) == FloorDiv(isqrt(value), divisor)

\* random.shuffle: any permutation of the characters
shuffle_string(s) ==
  {[i \in 1..Len(s) |-> s[p[i]]] : p \in Permutations(1..Len(s))}

\* calls of the generator behind random.shuffle for a list of n elements
ShuffleCalls(n) == Max(n - 1, 0)

\* ----------------------------------------------------------- configuration
\* the scaled-down counterpart of the defaults of pipeline()
Base ==
  [loops |-> 1, mul_times |-> 1, add_times |-> 1, hash1_len |-> 4,
   hash1_loops |-> 1, hash2_len |-> 2, remove_chars |-> 1, hash4_len |-> 2,
   final_div |-> 2]

Divs == (0 - 1)..MaxDiv

\* the configurations explored: Base with one parameter varied over its
\* range, and with the parameters that meet at the slice of step 8 and at the
\* deletion of step 9 varied together
Cfgs ==
  {[Base EXCEPT !.hash2_len = x, !.remove_chars = y] :
     x \in 1..MaxHash2Len, y \in 0..MaxRemove}
  \cup {[Base EXCEPT !.hash1_len = x, !.hash2_len = y] :
     x \in 1..MaxHash1Len, y \in 1..MaxHash2Len}
  \cup {[Base EXCEPT !.loops = x] : x \in 0..MaxLoops}
  \cup {[Base EXCEPT !.mul_times = x] : x \in 0..MaxMulTimes}
  \cup {[Base EXCEPT !.add_times = x] : x \in 0..MaxAddTimes}
  \cup {[Base EXCEPT !.hash1_len = x] : x \in 1..MaxHash1Len}
  \cup {[Base EXCEPT !.hash1_loops = x] : x \in 0..MaxHash1Loops}
  \cup {[Base EXCEPT !.hash2_len = x] : x \in 1..MaxHash2Len}
  \cup {[Base EXCEPT !.remove_chars = x] : x \in 0..MaxRemove}
  \cup {[Base EXCEPT !.hash4_len = x] : x \in 1..MaxHash4Len}
  \cup {[Base EXCEPT !.final_div = x] : x \in Divs}

Seeds == 0..MaxSeed

NoKey == "<none>"

\* JSON bodies a client may post: a key (right or wrong) or no key at all
Bodies == {[key |-> API_KEY], [key |-> "WRONG"], [nokey |-> TRUE]}

\* data.get("key")
GetKey(data) == IF "key" \in DOMAIN data THEN data.key ELSE NoKey

NoResponse == [status |-> 0, random_value |-> 0 - 1]

\* --------------------------------------------------------------- the state
VARIABLES
  pc,        \* control point of main() / pipeline()
  initial,   \* args.initial: kind "random", "bad" (no integer) or "int" with n
  cfg,       \* the pipeline parameters from the command line
  body,      \* the JSON body of the request to /random
  resp,      \* the endpoint's response
  value,     \* the running value
  passNo,    \* passes completed
  h4, h5, trimmed, h6,   \* the strings of the current pass
  err,       \* the exception that ended the run
  apiDraws,  \* randbits calls made by the endpoint
  draws,     \* the random draws of the current pass, in order
  steps,     \* the steps of the current pass entered so far
  calls,     \* the hash calls made by the last step
  passOut,   \* the value the last completed pass ended with
  finalAlt,  \* the results the last final step gives under every divisor
  mt_pos,    \* position of the process-wide generator behind random.shuffle
  mt_solo,   \* generator calls made by this execution's own shuffles
  others     \* shuffles made by other executions in the same process

vars ==
  <<pc, initial, cfg, body, resp, value, passNo, h4, h5, trimmed, h6, err,
    apiDraws, draws, steps, calls, passOut, finalAlt, mt_pos, mt_solo, others>>

pipeVars == <<value, passNo, h4, h5, trimmed, h6, draws, steps, calls, passOut,
              finalAlt, mt_pos, mt_solo>>

InitPipe ==
  /\ value = 0
  /\ passNo = 0
  /\ h4 = <<>>
  /\ h5 = <<>>
  /\ trimmed = <<>>
  /\ h6 = <<>>
  /\ err = "none"
  /\ apiDraws = 0
  /\ draws = <<>>
  /\ steps = <<>>
  /\ calls = <<>>
  /\ passOut = 0 - 1
  /\ finalAlt = {}
  /\ mt_pos = 0
  /\ mt_solo = 0
  /\ others = 0
  /\ resp = NoResponse

\* main() with its arguments parsed, or a bare HTTP client about to post
Init ==
  /\ InitPipe
  /\ \/ /\ pc = "main"
        /\ initial \in {[kind |-> "int", n |-> x] : x \in Seeds}
        /\ cfg \in Cfgs
        /\ body = [nokey |-> TRUE]
     \/ /\ pc = "main"
        /\ initial = [kind |-> "random", n |-> 0]
        /\ cfg \in {Base, [Base EXCEPT !.loops = 0]}
        /\ body \in {[key |-> API_KEY], [key |-> "WRONG"]}
     \/ /\ pc = "main"
        /\ initial = [kind |-> "bad", n |-> 0]
        /\ cfg = Base
        /\ body = [nokey |-> TRUE]
     \/ /\ pc = "client"
        /\ initial = [kind |-> "none", n |-> 0]
        /\ cfg = Base
        /\ body \in Bodies

\* for _ in range(loops): the next control point after n completed passes
LoopHead(n) == IF n < cfg.loops THEN "multiply" ELSE "done"

\* ------------------------------------------------ command line and endpoint
\* main(): CLI mode, lines 182-189
main ==
  /\ pc = "main"
  /\ \/ /\ initial.kind = "random"
        /\ pc' = "post"
        /\ UNCHANGED value
     \/ /\ initial.kind = "int"
        /\ value' = initial.n
        /\ pc' = LoopHead(0)
     \/ /\ initial.kind = "bad"
        /\ pc' = "exit"
        /\ UNCHANGED value
  /\ UNCHANGED <<initial, cfg, body, resp, passNo, h4, h5, trimmed, h6, err,
                 apiDraws, draws, steps, calls, passOut, finalAlt, mt_pos,
                 mt_solo, others>>

\* requests.post(url, json={"key": api_key}, timeout=timeout): the request
\* reaches the endpoint, or the connection fails and the exception is re-raised
get_seed_from_api_post ==
  /\ pc = "post"
  /\ \/ /\ pc' = "request"
        /\ UNCHANGED err
     \/ /\ pc' = "error"
        /\ err' = "ConnectionError"
  /\ UNCHANGED <<initial, cfg, body, resp, apiDraws, others>>
  /\ UNCHANGED pipeVars

\* any other HTTP client posting a body to /random
client_post ==
  /\ pc = "client"
  /\ pc' = "request"
  /\ UNCHANGED <<initial, cfg, body, resp, err, apiDraws, others>>
  /\ UNCHANGED pipeVars

\* a faulty variant: the value is drawn before the key is compared
get_random_seed_draw_first ==
  /\ pc = "request"
  /\ \E rv \in randbits(SeedBits) :
       /\ apiDraws' = apiDraws + 1
       /\ resp' = IF GetKey(body) # API_KEY
                  THEN [status |-> 403, random_value |-> 0 - 1]
                  ELSE [status |-> 200, random_value |-> rv]
  /\ pc' = "response"
  /\ UNCHANGED <<initial, cfg, body, err, others>>
  /\ UNCHANGED pipeVars

\* POST /random
get_random_seed ==
  /\ pc = "request"
  /\ \/ /\ GetKey(body) # API_KEY
        /\ resp' = [status |-> 403, random_value |-> 0 - 1]
        /\ UNCHANGED apiDraws
     \/ /\ GetKey(body) = API_KEY
        /\ \E rv \in randbits(SeedBits) :
             resp' = [status |-> 200, random_value |-> rv]
        /\ apiDraws' = apiDraws + 1
  /\ pc' = "response"
  /\ UNCHANGED <<initial, cfg, body, err, others>>
  /\ UNCHANGED pipeVars

\* resp.raise_for_status(); return int(data["random_value"]), then main()
\* starts the pipeline with the seed
get_seed_from_api_recv ==
  /\ pc = "response"
  /\ initial.kind = "random"
  /\ \/ /\ resp.status = 200
        /\ value' = resp.random_value
        /\ pc' = LoopHead(0)
        /\ UNCHANGED err
     \/ /\ resp.status # 200
        /\ pc' = "error"
        /\ err' = "HTTPError"
        /\ UNCHANGED value
  /\ UNCHANGED <<initial, cfg, body, resp, passNo, h4, h5, trimmed, h6,
                 apiDraws, draws, steps, calls, passOut, finalAlt, mt_pos,
                 mt_solo, others>>

\* the bare client prints the value or the failure
client_recv ==
  /\ pc = "response"
  /\ initial.kind = "none"
  /\ pc' = "exit"
  /\ UNCHANGED <<initial, cfg, body, resp, err, apiDraws, others>>
  /\ UNCHANGED pipeVars

\* ------------------------------------------------------------ the pipeline
envVars == <<initial, cfg, body, resp, apiDraws, others>>

\* the bookkeeping every step of a pass shares: the step is entered, its
\* draws and hash calls are recorded, and an exception e ends the run
Advance(name, v, ds, cs, e, nextPc) ==
  /\ steps' = IF name = "multiply" THEN <<name>> ELSE Append(steps, name)
  /\ draws' = IF name = "multiply" THEN ds ELSE draws \o ds
  /\ calls' = cs
  /\ err' = e
  /\ pc' = IF e = "none" THEN nextPc ELSE "error"
  /\ value' = IF e = "none" THEN v ELSE value

\* line 92: value = multiply_by_random(value, mul_times)
pipeline_multiply ==
  /\ pc = "multiply"
  /\ \E o \in multiply_by_random(value, cfg.mul_times) :
       Advance("multiply", o.value, o.draws, <<>>, "none", "add")
  /\ UNCHANGED <<passNo, h4, h5, trimmed, h6, passOut, finalAlt, mt_pos, mt_solo>>
  /\ UNCHANGED envVars

\* line 93: value = add_random(value, add_times)
pipeline_add ==
  /\ pc = "add"
  /\ \E o \in add_random(value, cfg.add_times) :
       Advance("add", o.value, o.draws, <<>>, "none", "hash1")
  /\ UNCHANGED <<passNo, h4, h5, trimmed, h6, passOut, finalAlt, mt_pos, mt_solo>>
  /\ UNCHANGED envVars

\* line 96: value = repeated_hashing(value, hash1_len, hash1_loops, "shake_256")
pipeline_hash1 ==
  /\ pc = "hash1"
  /\ LET r == repeated_hashing(value, cfg.hash1_len, cfg.hash1_loops, "shake_256")
     IN Advance("hash1", r.value, <<>>, r.calls, r.err, "hash2")
  /\ UNCHANGED <<passNo, h4, h5, trimmed, h6, passOut, finalAlt, mt_pos, mt_solo>>
  /\ UNCHANGED envVars

\* line 99: value = repeated_hashing(value, hash2_len, 1, "shake_128")
pipeline_hash2 ==
  /\ pc = "hash2"
  /\ LET r == repeated_hashing(value, cfg.hash2_len, 1, "shake_128")
     IN Advance("hash2", r.value, <<>>, r.calls, r.err, "sqrt")
  /\ UNCHANGED <<passNo, h4, h5, trimmed, h6, passOut, finalAlt, mt_pos, mt_solo>>
  /\ UNCHANGED envVars

\* line 102: value = sqrt_and_divide(value, 4)
pipeline_sqrt ==
  /\ pc = "sqrt"
  /\ Advance("sqrt", sqrt_and_divide(value, SqrtDivisor), <<>>, <<>>, "none", "hash3")
  /\ UNCHANGED <<passNo, h4, h5, trimmed, h6, passOut, finalAlt, mt_pos, mt_solo>>
  /\ UNCHANGED envVars

\* lines 105-108: hash, reverse the hex string, convert back
pipeline_hash3 ==
  /\ pc = "hash3"
  /\ LET hv == HashValue(value, cfg.hash1_len, "shake_256")
         h3_rev == Reverse(hv.out)
         e == IF hv.err # "none" THEN hv.err
              ELSE IF ParseFails(h3_rev) THEN "ValueError" ELSE "none"
     IN Advance("hash3", ParseHex(h3_rev), <<>>, hv.call, e, "hash4")
  /\ UNCHANGED <<passNo, h4, h5, trimmed, h6, passOut, finalAlt, mt_pos, mt_solo>>
  /\ UNCHANGED envVars

\* lines 111-113: hash again with shake_256
pipeline_hash4 ==
  /\ pc = "hash4"
  /\ LET hv == HashValue(value, cfg.hash1_len, "shake_256")
         e == IF hv.err # "none" THEN hv.err
              ELSE IF ParseFails(hv.out) THEN "ValueError" ELSE "none"
     IN /\ Advance("hash4", ParseHex(hv.out), <<>>, hv.call, e, "shuffle")
        /\ h4' = hv.out
  /\ UNCHANGED <<passNo, h5, trimmed, h6, passOut, finalAlt, mt_pos, mt_solo>>
  /\ UNCHANGED envVars

\* lines 116-122: shuffle h4, decode its first 2 * hash2_len characters,
\* hash the bytes with shake_128
pipeline_shuffle ==
  /\ pc = "shuffle"
  /\ \E shuffled \in shuffle_string(h4) :
       LET slice == Take(shuffled, cfg.hash2_len * 2)
           shuffled_bytes == fromhex(slice)
           h == shake_hash(shuffled_bytes, cfg.hash2_len, "shake_128")
           odd == Len(slice) % 2 = 1
           e == IF odd \/ ParseFails(h) THEN "ValueError" ELSE "none"
           cs == IF odd THEN <<>>
                 ELSE <<[alg |-> "shake_128", encodes |-> FALSE, value |-> 0 - 1,
                         data |-> shuffled_bytes, n |-> cfg.hash2_len, out |-> h]>>
       IN /\ Advance("shuffle", ParseHex(h), <<DrawShuffle(Len(h4))>>, cs, e, "remove")
          /\ h5' = IF odd THEN h5 ELSE h
  /\ mt_pos' = mt_pos + ShuffleCalls(Len(h4))
  /\ mt_solo' = mt_solo + ShuffleCalls(Len(h4))
  /\ UNCHANGED <<passNo, h4, trimmed, h6, passOut, finalAlt>>
  /\ UNCHANGED envVars

\* line 125: trimmed = remove_random_chars(h5, remove_chars)
pipeline_remove ==
  /\ pc = "remove"
  /\ \E o \in remove_random_chars(h5, cfg.remove_chars) :
       /\ Advance("remove", value, o.draws, <<>>, "none", "mul16")
       /\ trimmed' = o.value
  /\ UNCHANGED <<passNo, h4, h5, h6, passOut, finalAlt, mt_pos, mt_solo>>
  /\ UNCHANGED envVars

\* line 128: value = int(trimmed, 16) * (secrets.randbelow(1 << 16) + 1);
\* the left operand is evaluated first, so a ValueError precedes the draw
pipeline_mul16 ==
  /\ pc = "mul16"
  /\ IF ParseFails(trimmed)
     THEN Advance("mul16", value, <<>>, <<>>, "ValueError", "final")
     ELSE \E r \in RandBelowBits(FinalMulBits) :
            Advance("mul16", ParseHex(trimmed) * (r + 1),
                    <<DrawBits(FinalMulBits)>>, <<>>, "none", "final")
  /\ UNCHANGED <<passNo, h4, h5, trimmed, h6, passOut, finalAlt, mt_pos, mt_solo>>
  /\ UNCHANGED envVars

\* a faulty variant: the quotient is what is reduced
FinalReduceQuotient(h, d) == FloorDiv(ParseHex(h), d) % ByteMod

\* lines 133-143 for a divisor d # 0: the quotient v2 is never read
FinalReduce(h, d) ==
  LET v1 == ParseHex(h)
      v2 == FloorDiv(v1, d)
      truncated_hex == Take(h, TruncLen)
      v3 == ParseHex(truncated_hex)
  IN v3 % ByteMod

\* lines 131-143: final hash, divide, truncate, modulo 256; then the next
\* pass or the return
pipeline_final ==
  /\ pc = "final"
  /\ LET hv == HashValue(value, cfg.hash4_len, "shake_256")
         e == IF hv.err # "none" THEN hv.err
              ELSE IF ParseFails(hv.out) THEN "ValueError"
              ELSE IF cfg.final_div = 0 THEN "ZeroDivisionError" ELSE "none"
         v == FinalReduce(hv.out, cfg.final_div)
     IN /\ Advance("final", v, <<>>, hv.call, e, LoopHead(passNo + 1))
        /\ h6' = hv.out
        /\ passNo' = IF e = "none" THEN passNo + 1 ELSE passNo
        /\ passOut' = IF e = "none" THEN v ELSE passOut
        /\ finalAlt' = IF e = "none"
                       THEN {FinalReduce(hv.out, d) : d \in Divs \ {0}}
                       ELSE finalAlt
  /\ UNCHANGED <<h4, h5, trimmed, mt_pos, mt_solo>>
  /\ UNCHANGED envVars

\* another pipeline execution in the same process reaches its line 116:
\* random.shuffle draws from the same module-level generator
other_shuffle ==
  /\ others < MaxOther
  /\ pc \in {"multiply", "add", "hash1", "hash2", "sqrt", "hash3", "hash4",
            "shuffle", "remove", "mul16", "final"}
  /\ \E n \in 1..MaxHash1Len :
       mt_pos' = mt_pos + ShuffleCalls(2 * (n \div 2))
  /\ others' = others + 1
  /\ UNCHANGED <<pc, initial, cfg, body, resp, value, passNo, h4, h5, trimmed,
                 h6, err, apiDraws, draws, steps, calls, passOut, finalAlt,
                 mt_solo>>

PipelineNext ==
  \/ pipeline_multiply
  \/ pipeline_add
  \/ pipeline_hash1
  \/ pipeline_hash2
  \/ pipeline_sqrt
  \/ pipeline_hash3
  \/ pipeline_hash4
  \/ pipeline_shuffle
  \/ pipeline_remove
  \/ pipeline_mul16
  \/ pipeline_final

Next ==
  \/ main
  \/ get_seed_from_api_post
  \/ client_post
  \/ get_random_seed
  \/ get_seed_from_api_recv
  \/ client_recv
  \/ PipelineNext

Spec == Init /\ [][Next]_vars

\* two pipeline executions in one process: the one followed, started with an
\* integer seed, and another whose shuffles interleave with it
InitConc ==
  /\ InitPipe
  /\ pc = "main"
  /\ initial \in {[kind |-> "int", n |-> x] : x \in Seeds}
  /\ cfg \in {[Base EXCEPT !.loops = x] : x \in 1..MaxLoops}
  /\ body = [nokey |-> TRUE]

NextConc == main \/ PipelineNext \/ other_shuffle

SpecConc == InitConc /\ [][NextConc]_vars

\* ------------------------------------------------------------- properties
IsEven(n) == n % 2 = 0

PipelineErrors == {"ValueError", "ZeroDivisionError", "OverflowError"}

PassPcs == {"multiply", "add", "hash1", "hash2", "sqrt", "hash3", "hash4",
            "shuffle", "remove", "mul16", "final"}

\* pipeline() has been called
Called == pc \in PassPcs \cup {"done"} \/ (pc = "error" /\ err \in PipelineErrors)

\* the seed pipeline() was called with
SeedOf == IF initial.kind = "random" THEN resp.random_value ELSE initial.n

ValidCfg(c) ==
  /\ c.loops >= 1
  /\ c.mul_times >= 0
  /\ c.add_times >= 0
  /\ c.hash1_loops >= 0
  /\ c.hash1_len > 0 /\ IsEven(c.hash1_len)
  /\ c.hash2_len > 0 /\ IsEven(c.hash2_len)
  /\ c.hash4_len > 0 /\ IsEven(c.hash4_len)
  /\ c.final_div # 0

\* C1: for every valid configuration and non-negative seed, pipeline() ends
\* normally and returns an integer in 0..255.
C1_ReturnsByte ==
  (Called /\ ValidCfg(cfg) /\ SeedOf >= 0) =>
    /\ pc # "error"
    /\ pc = "done" => (value >= 0 /\ value <= 255)

\* C2: when the deletion step has removed every character, the following
\* parse-and-multiply step takes the empty string as 0 and the pass goes on
\* to the final hash, with no parse error.
C2_EmptyTrimmedIsZero ==
  (Len(steps) = 10 /\ trimmed = <<>>) =>
    (err = "none" /\ pc = "final" /\ value = 0)

\* C3: with final_div = 0 the call fails before any random draw and before
\* any step of a pass: no execution with final_div = 0 enters a step or draws.
C3_ZeroDivisorBeforeDraws ==
  cfg.final_div = 0 =>
    (steps = <<>> /\ draws = <<>> /\ mt_pos = 0 /\ pc # "done")

InvalidCfg(c) ==
  \/ c.loops <= 0
  \/ c.mul_times <= 0
  \/ c.add_times <= 0
  \/ c.hash1_loops <= 0
  \/ ~IsEven(c.hash1_len)
  \/ ~IsEven(c.hash2_len)
  \/ ~IsEven(c.hash4_len)

\* C4: a configuration with a non-positive loop or repeat count or an odd
\* hash length is rejected before any pass executes and never yields a value.
C4_InvalidCfgRejected ==
  InvalidCfg(cfg) => (steps = <<>> /\ pc # "done")

IsLowerHex(h) == \A i \in 1..Len(h) : h[i] \in HexCharSet

CeilDiv8(b) == CHOOSE k \in 0..b : 8 * k >= b /\ (k = 0 \/ 8 * (k - 1) < b)

\* the integer a big-endian byte string denotes
RECURSIVE BigEndian(_)
BigEndian(bs) ==
  IF Len(bs) = 0 THEN 0
  ELSE 256 * BigEndian(SubSeq(bs, 1, Len(bs) - 1)) + bs[Len(bs)]

\* the number of binary digits of v >= 0
Bits(v) == CHOOSE b \in 0..30 : v < Pow(2, b) /\ (b = 0 \/ v >= Pow(2, b - 1))

\* C6: at every hash step that encodes the running value, the value is
\* non-negative and its encoding is big-endian of max(ceil(bits / 8), 1)
\* bytes: one zero byte for 0, and no leading zero byte for a value > 0.
C6_MinimalBigEndian ==
  /\ pc \in {"hash1", "hash2", "hash3", "hash4", "final"} => value >= 0
  /\ \A i \in 1..Len(calls) :
       calls[i].encodes =>
         /\ calls[i].value >= 0
         /\ Len(calls[i].data) = Max(CeilDiv8(Bits(calls[i].value)), 1)
         /\ \A k \in 1..Len(calls[i].data) :
              calls[i].data[k] >= 0 /\ calls[i].data[k] <= 255
         /\ BigEndian(calls[i].data) = calls[i].value
         /\ calls[i].value = 0 => calls[i].data = <<0>>
         /\ calls[i].value > 0 => calls[i].data[1] # 0

C6_Witness ==
  \E i \in 1..Len(calls) :
    /\ calls[i].encodes
    /\ calls[i].value >= 256
    /\ Len(calls[i].data) = 2

C8_NoSharedGenerator == mt_pos = mt_solo

\* C9: the returned value does not depend on final_div: under every non-zero
\* divisor the final step of a pass ends with the same value.
C9_FinalDivIrrelevant ==
  finalAlt # {} => finalAlt = {passOut}

C9_Witness ==
  /\ pc = "done"
  /\ finalAlt = {value}
  /\ cfg.final_div = 2
  /\ FloorDiv(ParseHex(h6), 2) % 256 # value
  /\ FloorDiv(ParseHex(h6), 2) # ParseHex(h6)

Order == <<"multiply", "add", "hash1", "hash2", "sqrt", "hash3", "hash4",
           "shuffle", "remove", "mul16", "final">>

Rep(n, x) == [i \in 1..n |-> x]

IsPrefix(a, b) == Len(a) <= Len(b) /\ a = SubSeq(b, 1, Len(a))

\* the draws of a pass whose first k steps have run
ExpectedDraws(k) ==
  (IF k >= 1 THEN Rep(cfg.mul_times, [kind |-> "randbelow_pow2", arg |-> 32])
   ELSE <<>>)
  \o (IF k >= 2 THEN Rep(cfg.add_times, [kind |-> "randbelow_pow2", arg |-> 32])
      ELSE <<>>)
  \o (IF k >= 8 THEN <<[kind |-> "shuffle", arg |-> Len(h4)]>> ELSE <<>>)
  \o (IF k >= 9
      THEN [j \in 1..Min(cfg.remove_chars, Len(h5)) |->
              [kind |-> "randbelow", arg |-> Len(h5) - j + 1]]
      ELSE <<>>)
  \o (IF k >= 10 THEN <<[kind |-> "randbelow_pow2", arg |-> 16]>> ELSE <<>>)

\* C10: a pass enters its steps in the fixed order and draws, in order,
\* mul_times values below 2^32, add_times values below 2^32, one shuffle,
\* min(remove_chars, length(h5)) indices each below the current length, and
\* one value below 2^16 (a pass ended by an exception has drawn a prefix of
\* these); the next pass starts after the final step, from its value.
C10_PassOrder ==
  /\ steps = SubSeq(Order, 1, Len(steps))
  /\ pc \in PassPcs =>
       pc = IF Len(steps) = Len(Order) THEN "multiply" ELSE Order[Len(steps) + 1]
  /\ pc # "error" => draws = ExpectedDraws(Len(steps))
  /\ pc = "error" /\ steps # <<>> =>
       /\ IsPrefix(ExpectedDraws(Len(steps) - 1), draws)
       /\ IsPrefix(draws, ExpectedDraws(Len(steps)))
  /\ passNo > 0 /\ pc \in {"multiply", "done"} =>
       (steps = Order /\ value = passOut)
  /\ passNo = 0 /\ pc \in {"multiply", "done"} => steps = <<>>

C10_Witness ==
  /\ pc = "done"
  /\ passNo = 2
  /\ steps = Order
  /\ Len(draws) = 5

====
